---- MODULE Spec2Model ----
(***************************************************************************)
(* The notification digest engine of statuspingme: the job queue           *)
(* (api/src/services/email.service.ts, imported as jobs/queue), the digest *)
(* jobs (api/src/jobs/digest.job.ts), the scheduler's drain pass and the   *)
(* HTTP handlers that write subscriptions, updates and jobs.               *)
(*                                                                         *)
(* Time is counted in minutes since the epoch.  The clock never runs       *)
(* backwards; several operations may happen within the same minute.        *)
(***************************************************************************)
EXTENDS Integers, FiniteSets, Sequences, TLC

\* ---- bounds of the model ------------------------------------------------
MaxTime    == 2     \* the clock runs from 1 to MaxTime
MaxBackoffTime == 5 \* ... and to MaxBackoffTime where retries are followed
MaxSubs    == 2     \* subscription rows ever inserted
MaxUpdates == 2     \* update rows ever inserted
MaxJobs    == 2     \* job rows ever inserted
MaxClockHours == 13 \* the scheduler is followed for this many hours
MaxOverlapHours == 4 \* ... and for this many with overlapping ticks
MaxPurgeDays == 8   \* the purge is followed for this many days
MaxRecipients == 7  \* recipients of one batched fan-out

\* ---- program constants --------------------------------------------------
MAX_ATTEMPTS == 3
PENDING_LIMIT == 10

Projects    == {"p1", "p2"}
Emails      == {"a", "b"}
Frequencies == {"instant", "daily", "weekly"}
\* runSchedulerTick is started by setInterval whether or not the previous
\* tick has returned, so two drain passes can be in progress at once.
Passes      == {"t1", "t2"}

Null     == -1      \* SQL NULL in a timestamp column
NoUpdate == 0       \* payload of a daily/weekly job carries no updateId
EpochStart == 0     \* new Date(0)

VARIABLES
    now,        \* the clock (Date.now(), new Date(), defaultNow())
    subs,       \* table digest_subscriptions: id -> row
    updates,    \* table updates: id -> row
    jobs,       \* table job_queue: id -> row
    nextId,     \* id generators of the three tables
    batch,      \* per drain pass: the job rows claimed and not yet started
    cur,        \* per drain pass: the job row whose processJob is running
    runs,       \* per job: processJob runs started since enqueue or retry
    mail,       \* the transport calls of the processJob that ended in the
                \* last step (NoMail after any other step)
    scheduleState,  \* scheduler.ts: last run of each cadence, in memory
    tick,       \* per scheduler tick in progress: its position
    fired,      \* per cadence: the UTC day for which it last ran (the day
                \* its gate was passed) and the number of runs for that day
    ret,        \* what the store call of the last step returned (NoRet
                \* after a step that records none)
    purge,      \* the cleanupOldJobs call that has selected its rows and
                \* not yet deleted them
    req,        \* per subscribe request in progress: what its lookup found
    fan,        \* the batched fan-out in progress: its loop index, the
                \* sends in flight and the results so far
    dig,        \* the processScheduledDigest in progress: the subscribers
                \* still to visit and the update query of the current one
    owed        \* per subscription: the updates of the emails whose send
                \* failed since the last successful send to it

vars == <<now, subs, updates, jobs, nextId, batch, cur, runs, mail,
          scheduleState, tick, fired, ret, purge, req, fan, owed, dig>>

\* the scheduler's own state, which no request handler touches
sched == <<scheduleState, tick, fired>>

\* op: the call; arg: its argument; ids: the rows it returned, inserted or
\* deleted; count: the number it returned; threw: whether it threw; prev: the
\* count the same call with the same argument returned in the step before
Ret(op, arg, ids, count, threw, prev) ==
    [op |-> op, arg |-> arg, ids |-> ids, count |-> count, threw |-> threw,
     prev |-> prev]

NoRet == Ret("none", 0, {}, 0, FALSE, Null)

\* cleanupOldJobs between its two statements: the time of the call, its
\* argument and the rows of toDelete
NoPurge == [active |-> FALSE, at |-> 0, days |-> 0, ids |-> {}]

Cadences == {"dailyDigest", "weeklyDigest", "cleanup"}

\* no fan-out in progress. at: where the loop is; n: subscribers.length;
\* i: the loop variable; inflight: the recipients (1..n) whose send has
\* not returned; results: recipient -> result.success
NoFanOut == [at |-> "idle", n |-> 0, i |-> 0, inflight |-> {}, results |-> <<>>]

\* no scheduled digest in progress. at: where processScheduledDigest is
\* ("loop": between two subscribers, "sending": between the update query
\* of a subscriber and the return of its send); job: the job row; todo:
\* the loaded subscriber rows not yet visited, id -> lastSentAt as loaded;
\* sub, prev, ups: the subscriber being served, its lastSent and the
\* update ids its query returned
NoDigest == [at |-> "idle", job |-> 0, todo |-> <<>>, sub |-> 0, prev |-> 0,
             ups |-> {}]

\* the subscribe requests that may be in progress at the same time
Requests == {"r1", "r2"}

\* a subscribe request between its lookup and its write
NoRequest == [at |-> "idle", p |-> "none", e |-> "none", f |-> "none", id |-> 0]

NoMail == [job |-> 0, type |-> "none", threw |-> FALSE, sends |-> {}]

NoJob == [id |-> 0, type |-> "none", projectId |-> "none",
          updateId |-> NoUpdate, subscriberIds |-> {}]

\* ---- job store (email.service.ts, second half) --------------------------

\* enqueueJob: insert a pending row with attempts 0, scheduled for now
enqueueJob(J, id, type, projectId, updateId, subscriberIds, t) ==
    [k \in DOMAIN J \cup {id} |->
        IF k = id
        THEN [type |-> type, projectId |-> projectId, updateId |-> updateId,
              subscriberIds |-> subscriberIds, status |-> "pending",
              attempts |-> 0, scheduledFor |-> t, createdAt |-> t]
        ELSE J[k]]

\* getPendingJobs: WHERE status = 'pending' AND scheduled_for <= now
ReadyJobs(J, t) ==
    {j \in DOMAIN J : J[j].status = "pending" /\ J[j].scheduledFor <= t}

Min(a, b) == IF a < b THEN a ELSE b

\* ... LIMIT limit, in no stated order: any subset of the ready rows that
\* has min(limit, number of ready rows) elements
getPendingJobs(J, t, limit) ==
    {S \in SUBSET ReadyJobs(J, t) :
        Cardinality(S) = Min(limit, Cardinality(ReadyJobs(J, t)))}

\* markJobProcessing: UPDATE ... SET status, attempts = attempts + 1 WHERE id
markJobProcessing(J, id) ==
    [k \in DOMAIN J |->
        IF k = id
        THEN [J[k] EXCEPT !.status = "processing", !.attempts = @ + 1]
        ELSE J[k]]

\* faulty variant: the final mark is not written
markJobCompletedLost(J, id) == J

\* markJobCompleted: UPDATE ... SET status = 'completed' WHERE id
markJobCompleted(J, id) ==
    [k \in DOMAIN J |->
        IF k = id THEN [J[k] EXCEPT !.status = "completed"] ELSE J[k]]

\* markJobFailed: reads the row (whose attempts markJobProcessing has
\* already incremented), adds one more, and compares with MAX_ATTEMPTS
markJobFailed(J, id, t) ==
    IF id \notin DOMAIN J THEN J
    ELSE LET newAttempts == J[id].attempts + 1
             newStatus   == IF newAttempts >= MAX_ATTEMPTS
                            THEN "failed" ELSE "pending"
         IN  [k \in DOMAIN J |->
                IF k = id
                THEN [J[k] EXCEPT
                        !.status = newStatus,
                        !.attempts = newAttempts,
                        !.scheduledFor =
                            IF newStatus = "pending"
                            THEN t + newAttempts * newAttempts
                            ELSE @]
                ELSE J[k]]

\* ---- digest computation (digest.job.ts) ---------------------------------

\* faulty variant: the watermark of the row is not read
lastSentIgnored(row) == EpochStart

\* processScheduledDigest: subscriber.lastSentAt || new Date(0)
lastSent(row) ==
    IF row.lastSentAt = Null THEN EpochStart ELSE row.lastSentAt

\* faulty variant: the watermark is moved one step on from its old value
updateLastSentAtStepwise(S, ids, t) ==
    [s \in DOMAIN S |->
        IF s \in ids THEN [S[s] EXCEPT !.lastSentAt = lastSent(S[s]) + 1] ELSE S[s]]

\* updateLastSentAt: SET last_sent_at = new Date() WHERE id IN (ids)
updateLastSentAt(S, ids, t) ==
    [s \in DOMAIN S |->
        IF s \in ids THEN [S[s] EXCEPT !.lastSentAt = t] ELSE S[s]]

\* the rows of project p with frequency f
SubscribersOf(S, p, f) ==
    {s \in DOMAIN S : S[s].projectId = p /\ S[s].frequency = f}

\* faulty variant: the instant subscribers are looked up again at send time
InstantRecipientsLive(S, subscriberIds) ==
    {s \in DOMAIN S : S[s].frequency = "instant"}

\* processInstantDigest: WHERE id IN (subscriberIds)
InstantRecipients(S, subscriberIds) ==
    {s \in DOMAIN S : s \in subscriberIds}

\* faulty variant: gte instead of gt
newUpdatesInclusive(U, p, since) ==
    {u \in DOMAIN U : U[u].projectId = p /\ U[u].createdAt >= since}

\* processScheduledDigest: WHERE project_id = p AND created_at > lastSent
newUpdates(U, p, since) ==
    {u \in DOMAIN U : U[u].projectId = p /\ U[u].createdAt > since}

\* the subscribers of a scheduled digest that are not skipped
ScheduledRecipients(S, U, p, f) ==
    {s \in SubscribersOf(S, p, f) : newUpdates(U, p, lastSent(S[s])) # {}}

\* faulty variant: the frequency filter is missing
ProjectsWithAny(S, f) == {S[s].projectId : s \in DOMAIN S}

\* queueDailyDigests / queueWeeklyDigests: SELECT DISTINCT project_id
ProjectsWith(S, f) == {S[s].projectId : s \in {x \in DOMAIN S : S[x].frequency = f}}

Init ==
    /\ now = 1
    /\ subs = <<>>
    /\ updates = <<>>
    /\ jobs = <<>>
    /\ nextId = [sub |-> 1, update |-> 1, job |-> 1]
    /\ batch = [p \in Passes |-> {}]
    /\ cur = [p \in Passes |-> NoJob]
    /\ runs = [j \in 1..MaxJobs |-> 0]
    /\ mail = NoMail
    /\ scheduleState = [c \in Cadences |-> Null]
    /\ tick = [p \in Passes |->
                [at |-> "idle", c |-> "none", threw |-> FALSE, day |-> Null]]
    /\ fired = [c \in Cadences |-> [day |-> Null, count |-> 0]]
    /\ ret = NoRet
    /\ purge = NoPurge
    /\ req = [r \in Requests |-> NoRequest]
    /\ fan = NoFanOut
    /\ owed = [s \in 1..MaxSubs |-> {}]
    /\ dig = NoDigest

\* the clock advances, up to the bound
Tick(bound) ==
    /\ now < bound
    /\ now' = now + 1
    /\ mail' = NoMail
    /\ ret' = NoRet
    /\ UNCHANGED <<subs, updates, jobs, nextId, batch, cur, runs, sched, purge,
                   req, fan,
                   owed, dig>>

\* ---- public timeline routes: subscribe / unsubscribe --------------------

\* frequency && validFrequencies.includes(frequency) ? frequency : 'instant'
normalizedFrequency(f) == IF f \in Frequencies THEN f ELSE "instant"

\* email.toLowerCase().trim()
normalizedEmail(e) == IF e = "A" THEN "a" ELSE e

RawEmails == Emails \cup {"A"}
RawFrequencies == Frequencies \cup {"none"}

existingSubscription(S, p, e) ==
    {s \in DOMAIN S : S[s].projectId = p /\ S[s].email = normalizedEmail(e)}

\* faulty variant: the frequency change rewrites the whole row, as an insert would
updateSubscriptionAsNewRow(S, id, f) ==
    [S EXCEPT ![id].frequency = normalizedFrequency(f), ![id].lastSentAt = Null]

\* the row written when the (project, email) pair is already subscribed
updateSubscription(S, id, f) ==
    [S EXCEPT ![id].frequency = normalizedFrequency(f)]

\* the row inserted otherwise: last_sent_at NULL (created_at, which no
\* operation reads, is left out of the row)
insertSubscription(S, id, p, e, f) ==
    [k \in DOMAIN S \cup {id} |->
        IF k = id
        THEN [projectId |-> p, email |-> normalizedEmail(e),
              frequency |-> normalizedFrequency(f),
              lastSentAt |-> Null]
        ELSE S[k]]

\* POST /timeline/:token/subscribe
Subscribe(p, e, f) ==
    /\ IF existingSubscription(subs, p, e) # {}
       THEN /\ subs' = updateSubscription(subs,
                          CHOOSE s \in existingSubscription(subs, p, e) : TRUE, f)
            /\ nextId' = nextId
       ELSE /\ nextId.sub <= MaxSubs
            /\ subs' = insertSubscription(subs, nextId.sub, p, e, f)
            /\ nextId' = [nextId EXCEPT !.sub = @ + 1]
    /\ mail' = NoMail
    /\ ret' = NoRet
    /\ UNCHANGED <<now, updates, jobs, batch, cur, runs, sched, purge,
                   req, fan,
                   owed, dig>>

\* faulty variant: the table has no unique constraint on the pair
uniqueProjectEmailMissing(S, p, e) == TRUE

\* unique('digest_subscriptions_project_email').on(projectId, email): the
\* insert of a second row for the pair is rejected
uniqueProjectEmail(S, p, e) == existingSubscription(S, p, e) = {}

\* POST /timeline/:token/subscribe, up to the lookup of the existing row
SubscribeLookup(r, p, e, f) ==
    /\ req[r].at = "idle"
    /\ req' = [req EXCEPT ![r] =
                 IF existingSubscription(subs, p, e) # {}
                 THEN [at |-> "update", p |-> p, e |-> e, f |-> f,
                       id |-> CHOOSE s \in existingSubscription(subs, p, e) : TRUE]
                 ELSE [at |-> "insert", p |-> p, e |-> e, f |-> f, id |-> 0]]
    /\ mail' = NoMail
    /\ ret' = NoRet
    /\ UNCHANGED <<now, subs, updates, jobs, nextId, batch, cur, runs, sched,
                   purge, fan,
                   owed, dig>>

\* ... and its write: the update of the row found, or the insert, which
\* throws (response 500) when the unique constraint rejects it
SubscribeWrite(r) ==
    /\ req[r].at # "idle"
    /\ IF req[r].at = "update"
       THEN /\ subs' = IF req[r].id \in DOMAIN subs
                       THEN updateSubscription(subs, req[r].id, req[r].f)
                       ELSE subs
            /\ nextId' = nextId
            /\ ret' = Ret("subscribe", 200, {}, 0, FALSE, Null)
       ELSE IF uniqueProjectEmail(subs, req[r].p, req[r].e)
       THEN /\ nextId.sub <= MaxSubs
            /\ subs' = insertSubscription(subs, nextId.sub, req[r].p, req[r].e,
                                          req[r].f)
            /\ nextId' = [nextId EXCEPT !.sub = @ + 1]
            /\ ret' = Ret("subscribe", 201, {nextId.sub}, 0, FALSE, Null)
       ELSE /\ subs' = subs
            /\ nextId' = nextId
            /\ ret' = Ret("subscribe", 500, {}, 0, TRUE, Null)
    /\ req' = [req EXCEPT ![r] = NoRequest]
    /\ mail' = NoMail
    /\ UNCHANGED <<now, updates, jobs, batch, cur, runs, sched, purge, fan,
                   owed, dig>>

\* DELETE /timeline/:token/unsubscribe
Unsubscribe(p, e) ==
    /\ existingSubscription(subs, p, e) # {}
    /\ LET id == CHOOSE s \in existingSubscription(subs, p, e) : TRUE
       IN  subs' = [k \in DOMAIN subs \ {id} |-> subs[k]]
    /\ mail' = NoMail
    /\ ret' = NoRet
    /\ UNCHANGED <<now, updates, jobs, nextId, batch, cur, runs, sched, purge,
                   req, fan,
                   owed, dig>>

\* removeSubscriber (the project owner removes a subscriber by id)
RemoveSubscriber(p, id) ==
    /\ id \in DOMAIN subs
    /\ subs[id].projectId = p
    /\ subs' = [k \in DOMAIN subs \ {id} |-> subs[k]]
    /\ mail' = NoMail
    /\ ret' = Ret("removeSubscriber", id, {id}, 0, FALSE, Null)
    /\ UNCHANGED <<now, updates, jobs, nextId, batch, cur, runs, sched, purge,
                   req, fan, owed, dig>>

\* ---- updates service ----------------------------------------------------

\* faulty variant: the frequency filter is missing from the subscriber query
triggerInstantDigestAnyFrequency(S, J, id, p, u, t) ==
    IF {s \in DOMAIN S : S[s].projectId = p} = {}
    THEN J
    ELSE enqueueJob(J, id, "instant_digest", p, u,
                    {s \in DOMAIN S : S[s].projectId = p}, t)

\* triggerInstantDigest: no job without instant subscribers, else one job
\* whose payload carries the ids of the instant subscribers of the project
triggerInstantDigest(S, J, id, p, u, t) ==
    IF SubscribersOf(S, p, "instant") = {}
    THEN J
    ELSE enqueueJob(J, id, "instant_digest", p, u,
                    SubscribersOf(S, p, "instant"), t)

\* createUpdate: insert the update (created_at now), then trigger
CreateUpdate(p) ==
    /\ nextId.update <= MaxUpdates
    /\ SubscribersOf(subs, p, "instant") # {} => nextId.job <= MaxJobs
    /\ updates' = [k \in DOMAIN updates \cup {nextId.update} |->
                     IF k = nextId.update
                     THEN [projectId |-> p, createdAt |-> now]
                     ELSE updates[k]]
    /\ jobs' = triggerInstantDigest(subs, jobs, nextId.job, p, nextId.update, now)
    /\ nextId' = [nextId EXCEPT
                    !.update = @ + 1,
                    !.job = @ + Cardinality(DOMAIN jobs' \ DOMAIN jobs)]
    /\ mail' = NoMail
    /\ ret' = NoRet
    /\ UNCHANGED <<now, subs, batch, cur, runs, sched, purge,
                   req, fan,
                   owed, dig>>

\* deleteUpdate
DeleteUpdate(u) ==
    /\ u \in DOMAIN updates
    /\ updates' = [k \in DOMAIN updates \ {u} |-> updates[k]]
    /\ mail' = NoMail
    /\ ret' = NoRet
    /\ UNCHANGED <<now, subs, jobs, nextId, batch, cur, runs, sched, purge,
                   req, fan,
                   owed, dig>>

\* ---- cadence enqueue ----------------------------------------------------

RECURSIVE enqueueEach(_, _, _, _, _)
\* for (const { projectId } of projectIds) await enqueueJob(type, { projectId })
enqueueEach(J, id, type, P, t) ==
    IF P = {} THEN J
    ELSE LET p == CHOOSE x \in P : TRUE
         IN  enqueueEach(enqueueJob(J, id, type, p, NoUpdate, {}, t),
                         id + 1, type, P \ {p}, t)

queueDailyDigests(S, J, id, t) ==
    enqueueEach(J, id, "daily_digest", ProjectsWith(S, "daily"), t)

queueWeeklyDigests(S, J, id, t) ==
    enqueueEach(J, id, "weekly_digest", ProjectsWith(S, "weekly"), t)

\* faulty variant: the manual trigger records a run of the cadence
lastRunAfterTriggerRecorded(st, c, t) == [st EXCEPT ![c] = t]

\* triggerDailyDigests and triggerWeeklyDigests call the enqueue function
\* and nothing else: no statement assigns scheduleState
lastRunAfterTrigger(st, c, t) == st

\* triggerDailyDigests (POST /digest/trigger-daily)
TriggerDailyDigests ==
    /\ ProjectsWith(subs, "daily") # {}
    /\ nextId.job + Cardinality(ProjectsWith(subs, "daily")) - 1 <= MaxJobs
    /\ jobs' = queueDailyDigests(subs, jobs, nextId.job, now)
    /\ nextId' = [nextId EXCEPT !.job = @ + Cardinality(DOMAIN jobs' \ DOMAIN jobs)]
    /\ mail' = NoMail
    /\ ret' = Ret("triggerDailyDigests", 0, DOMAIN jobs' \ DOMAIN jobs, 0, FALSE, Null)
    /\ scheduleState' = lastRunAfterTrigger(scheduleState, "dailyDigest", now)
    /\ UNCHANGED <<now, subs, updates, batch, cur, runs, tick, fired, purge,
                   req, fan,
                   owed, dig>>

\* triggerWeeklyDigests (POST /digest/trigger-weekly)
TriggerWeeklyDigests ==
    /\ ProjectsWith(subs, "weekly") # {}
    /\ nextId.job + Cardinality(ProjectsWith(subs, "weekly")) - 1 <= MaxJobs
    /\ jobs' = queueWeeklyDigests(subs, jobs, nextId.job, now)
    /\ nextId' = [nextId EXCEPT !.job = @ + Cardinality(DOMAIN jobs' \ DOMAIN jobs)]
    /\ mail' = NoMail
    /\ ret' = Ret("triggerWeeklyDigests", 0, DOMAIN jobs' \ DOMAIN jobs, 0, FALSE, Null)
    /\ scheduleState' = lastRunAfterTrigger(scheduleState, "weeklyDigest", now)
    /\ UNCHANGED <<now, subs, updates, batch, cur, runs, tick, fired, purge,
                   req, fan,
                   owed, dig>>

\* ---- job processing -----------------------------------------------------

\* what a drain pass holds of a claimed row: { id, type, payload }
claimed(J, j) ==
    [id |-> j, type |-> J[j].type, projectId |-> J[j].projectId,
     updateId |-> J[j].updateId, subscriberIds |-> J[j].subscriberIds]

\* a new tick uses the first pass that is not in progress
FreePass(p) ==
    /\ batch[p] = {}
    /\ cur[p] = NoJob
    /\ p = "t2" => (batch["t1"] # {} \/ cur["t1"] # NoJob)

\* runJobProcessor, first half: const jobs = await getPendingJobs(10)
RunJobProcessor(p) ==
    /\ FreePass(p)
    /\ \E S \in getPendingJobs(jobs, now, PENDING_LIMIT) :
          /\ S # {}
          /\ batch' = [batch EXCEPT ![p] = {claimed(jobs, j) : j \in S}]
          /\ ret' = Ret("getPendingJobs", PENDING_LIMIT, S, Cardinality(S),
                         FALSE, Null)
    /\ mail' = NoMail
    /\ UNCHANGED <<now, subs, updates, jobs, nextId, cur, runs, sched, purge,
                   req, fan,
                   owed, dig>>

\* processJob, first statement: await markJobProcessing(job.id)
StartJob(p, r) ==
    /\ r \in batch[p]
    /\ cur[p] = NoJob
    /\ batch' = [batch EXCEPT ![p] = @ \ {r}]
    /\ cur' = [cur EXCEPT ![p] = r]
    /\ jobs' = markJobProcessing(jobs, r.id)
    /\ runs' = [runs EXCEPT ![r.id] = @ + 1]
    /\ mail' = NoMail
    /\ ret' = NoRet
    /\ UNCHANGED <<now, subs, updates, nextId, sched, purge,
                   req, fan,
                   owed, dig>>

Scheduled == {"daily_digest", "weekly_digest"}

\* the frequency processJob passes to processScheduledDigest
FrequencyOf(type) == IF type = "daily_digest" THEN "daily" ELSE "weekly"

\* faulty variant: an instant job sends to the ids of its payload without
\* looking them up
RecipientsOfPayload(S, U, r) ==
    IF r.type = "instant_digest"
    THEN r.subscriberIds
    ELSE ScheduledRecipients(S, U, r.projectId, FrequencyOf(r.type))

\* the subscriptions a job sends to
Recipients(S, U, r) ==
    IF r.type = "instant_digest"
    THEN InstantRecipients(S, r.subscriberIds)
    ELSE ScheduledRecipients(S, U, r.projectId, FrequencyOf(r.type))

\* processInstantDigest throws when the update of the payload is gone
Throws(U, r) == r.type = "instant_digest" /\ r.updateId \notin DOMAIN U

\* the updates in the email sent to subscriber s
Content(S, U, r, s) ==
    IF r.type = "instant_digest" THEN {r.updateId}
    ELSE newUpdates(U, r.projectId, lastSent(S[s]))

\* the transport calls of one job; ok is the set of recipients for which
\* the transport reports success (all of them when no API key is configured)
Sends(S, U, r, ok) ==
    {[sub |-> s, ups |-> Content(S, U, r, s), ok |-> s \in ok,
      prev |-> IF s \in DOMAIN S THEN S[s].lastSentAt ELSE Null] :
        s \in Recipients(S, U, r)}

\* faulty variant: the watermark of every recipient is written, whatever the
\* transport reported
processDigestOptimistic(S, U, r, ok, t) ==
    updateLastSentAt(S, Recipients(S, U, r), t)

\* processInstantDigest / processScheduledDigest: the subscription table
\* after the watermark writes of the recipients whose send succeeded
processDigest(S, U, r, ok, t) ==
    updateLastSentAt(S, Recipients(S, U, r) \cap ok, t)

\* faulty variant: a daily or weekly digest always ends in the catch block
finishJobStrict(J, U, r, t) ==
    IF Throws(U, r) \/ r.type \in Scheduled
    THEN markJobFailed(J, r.id, t)
    ELSE markJobCompleted(J, r.id)

\* processJob after the digest: markJobCompleted, or markJobFailed in the
\* catch block
finishJob(J, U, r, t) ==
    IF Throws(U, r)
    THEN markJobFailed(J, r.id, t)
    ELSE markJobCompleted(J, r.id)

\* faulty variant: the error of a job ends the drain pass
remainingJobsAbort(B, threw) == IF threw THEN {} ELSE B

\* runJobProcessor: try { await processJob(job) } catch (error) { continue }
\* the pass goes on with the jobs it has claimed and not yet started
remainingJobs(B, threw) == B

\* the updates of failed emails, per subscription, after the transport
\* calls of one job
owedAfter(O, sends) ==
    [s \in DOMAIN O |->
        IF \E m \in sends : m.sub = s
        THEN LET m == CHOOSE x \in sends : x.sub = s
             IN  IF m.ok THEN {} ELSE O[s] \cup m.ups
        ELSE O[s]]

\* processJob, the rest: the digest of the job and its final mark
FinishJob(p) ==
    /\ cur[p] # NoJob
    /\ cur' = [cur EXCEPT ![p] = NoJob]
    /\ batch' = [batch EXCEPT ![p] = remainingJobs(@, Throws(updates, cur[p]))]
    /\ jobs' = finishJob(jobs, updates, cur[p], now)
    /\ IF Throws(updates, cur[p])
       THEN /\ subs' = subs
            /\ owed' = owed
            /\ mail' = [job |-> cur[p].id, type |-> cur[p].type,
                        threw |-> TRUE, sends |-> {}]
       ELSE \E ok \in SUBSET Recipients(subs, updates, cur[p]) :
            /\ subs' = processDigest(subs, updates, cur[p], ok, now)
            /\ mail' = [job |-> cur[p].id, type |-> cur[p].type,
                        threw |-> FALSE,
                        sends |-> Sends(subs, updates, cur[p], ok)]
            /\ owed' = owedAfter(owed, Sends(subs, updates, cur[p], ok))
    /\ ret' = NoRet
    /\ UNCHANGED <<now, updates, nextId, runs, sched, purge, req, fan, dig>>

\* ---- administrative surface ---------------------------------------------

\* faulty variant: the status of the job is not looked at
retryJobAnyStatus(J, id, t) ==
    IF id \in DOMAIN J
    THEN [J EXCEPT ![id].status = "pending", ![id].attempts = 0,
                   ![id].scheduledFor = t]
    ELSE J

\* POST /jobs/:jobId/retry: only a failed job is reset
retryJob(J, id, t) ==
    IF id \in DOMAIN J /\ J[id].status = "failed"
    THEN [J EXCEPT ![id].status = "pending", ![id].attempts = 0,
                   ![id].scheduledFor = t]
    ELSE J

\* faulty variant: the status of the job is not looked at
retryJobResponseAnyStatus(J, id) ==
    IF id \notin DOMAIN J THEN 404 ELSE 200

\* the status code of the response: 404 'Job not found', 400 'Can only
\* retry failed jobs', else 200
retryJobResponse(J, id) ==
    IF id \notin DOMAIN J THEN 404
    ELSE IF J[id].status # "failed" THEN 400
    ELSE 200

\* POST /jobs/:jobId/retry, with its response
RetryJobResponded(j) ==
    /\ jobs' = retryJob(jobs, j, now)
    /\ runs' = IF jobs' # jobs THEN [runs EXCEPT ![j] = 0] ELSE runs
    /\ mail' = NoMail
    /\ ret' = Ret("retryJob", j, DOMAIN jobs \cap {j}, retryJobResponse(jobs, j),
                  FALSE, Null)
    /\ UNCHANGED <<now, subs, updates, nextId, batch, cur, sched, purge,
                   req, fan, owed, dig>>

\* POST /jobs/:jobId/retry, seen from the job table
RetryJob(j) ==
    /\ j \in DOMAIN jobs
    /\ jobs' = retryJob(jobs, j, now)
    /\ runs' = IF jobs' # jobs THEN [runs EXCEPT ![j] = 0] ELSE runs
    /\ mail' = NoMail
    /\ ret' = NoRet
    /\ UNCHANGED <<now, subs, updates, nextId, batch, cur, sched, purge,
                   req, fan,
                   owed, dig>>

\* ---- batched fan-out (sendBatchNotifications, processInstantDigest) -----

BATCH_SIZE == 5

\* faulty variant: the whole list is sent at once
sliceAll(i, n) == (i + 1)..n

\* subscribers.slice(i, i + BATCH_SIZE), as positions 1..n of the list
slice(i, n) == (i + 1)..Min(i + BATCH_SIZE, n)

\* the fan-out is called with n recipients: let i = 0
FanOutStart(n) ==
    /\ fan.at = "idle"
    /\ fan' = [at |-> "loop", n |-> n, i |-> 0, inflight |-> {},
               results |-> <<>>]
    /\ mail' = NoMail
    /\ ret' = NoRet
    /\ UNCHANGED <<now, subs, updates, jobs, nextId, batch, cur, runs, sched,
                   purge, req,
                   owed, dig>>

\* i < subscribers.length: batch.map(async ...) starts the send of every
\* recipient of the slice, and Promise.all awaits them
FanOutChunk ==
    /\ fan.at = "loop"
    /\ fan.i < fan.n
    /\ fan' = [fan EXCEPT !.at = "await", !.inflight = slice(fan.i, fan.n)]
    /\ mail' = NoMail
    /\ ret' = NoRet
    /\ UNCHANGED <<now, subs, updates, jobs, nextId, batch, cur, runs, sched,
                   purge, req,
                   owed, dig>>

\* the send to recipient k returns its result (sendEmail catches what the
\* transport throws); when it is the last of the slice, Promise.all
\* resolves, the results are recorded and i += BATCH_SIZE
FanOutSendReturns(k, ok) ==
    /\ fan.at = "await"
    /\ k \in fan.inflight
    /\ fan' = [fan EXCEPT
                 !.inflight = @ \ {k},
                 !.results = [j \in DOMAIN fan.results \cup {k} |->
                                 IF j = k THEN ok ELSE fan.results[j]],
                 !.at = IF fan.inflight = {k} THEN "loop" ELSE "await",
                 !.i = IF fan.inflight = {k} THEN @ + BATCH_SIZE ELSE @]
    /\ mail' = NoMail
    /\ ret' = NoRet
    /\ UNCHANGED <<now, subs, updates, jobs, nextId, batch, cur, runs, sched,
                   purge, req,
                   owed, dig>>

\* i >= subscribers.length: return results
FanOutEnd ==
    /\ fan.at = "loop"
    /\ fan.i >= fan.n
    /\ fan' = [fan EXCEPT !.at = "done"]
    /\ mail' = NoMail
    /\ ret' = NoRet
    /\ UNCHANGED <<now, subs, updates, jobs, nextId, batch, cur, runs, sched,
                   purge, req,
                   owed, dig>>

\* ---- job store: purge ---------------------------------------------------

MinutesPerDay == 24 * 60

\* cleanupOldJobs: cutoff = Date.now() - olderThanDays * 24 * 60 * 60 * 1000
cutoff(t, olderThanDays) == t - olderThanDays * MinutesPerDay

\* WHERE status IN ('completed', 'failed') AND created_at <= cutoff
purgeable(J, t, olderThanDays) ==
    {j \in DOMAIN J : /\ J[j].status \in {"completed", "failed"}
                      /\ J[j].createdAt <= cutoff(t, olderThanDays)}

\* faulty variant: the delete leaves the rows created at the cutoff itself
cleanupOldJobsDeleteStrict(J, t, olderThanDays) ==
    LET toDelete == purgeable(J, t, olderThanDays)
        gone == {j \in toDelete : J[j].createdAt < cutoff(t, olderThanDays)}
    IN  IF toDelete = {}
        THEN [jobs |-> J, deleted |-> 0]
        ELSE [jobs |-> [k \in DOMAIN J \ gone |-> J[k]],
              deleted |-> Cardinality(toDelete)]

\* cleanupOldJobs: select the ids, return 0 when there is none, else delete
\* the same rows and return the number selected
cleanupOldJobs(J, t, olderThanDays) ==
    LET toDelete == purgeable(J, t, olderThanDays)
    IN  IF toDelete = {}
        THEN [jobs |-> J, deleted |-> 0]
        ELSE [jobs |-> [k \in DOMAIN J \ purgeable(J, t, olderThanDays) |-> J[k]],
              deleted |-> Cardinality(toDelete)]

RETENTION_DAYS == 7

\* POST /jobs/cleanup: parseInt(req.query.days) || 7
olderThanDays(days) == IF days = 0 THEN RETENTION_DAYS ELSE days

\* the values of ?days= that are tried: none (or 0), 1, 2 and -1
RawDays == {0, 1, 2, 0 - 1}

\* POST /jobs/cleanup, the whole call with no other store call between its
\* two statements
CleanupJobs(days) ==
    /\ jobs' = cleanupOldJobs(jobs, now, olderThanDays(days)).jobs
    /\ ret' = Ret("cleanupOldJobs", olderThanDays(days),
                  DOMAIN jobs \ DOMAIN jobs',
                  cleanupOldJobs(jobs, now, olderThanDays(days)).deleted, FALSE,
                  IF ret.op = "cleanupOldJobs" /\ ret.arg = olderThanDays(days)
                  THEN ret.count ELSE Null)
    /\ mail' = NoMail
    /\ UNCHANGED <<now, subs, updates, nextId, batch, cur, runs, sched, purge,
                   req, fan,
                   owed, dig>>

\* cleanupOldJobs, first statement: the select of the rows 'we're about to
\* delete'; the call returns 0 when there is none
CleanupSelect(days) ==
    /\ ~purge.active
    /\ LET toDelete == purgeable(jobs, now, olderThanDays(days))
       IN  IF toDelete = {}
           THEN /\ purge' = NoPurge
                /\ ret' = Ret("cleanupOldJobs", olderThanDays(days), {}, 0,
                              FALSE, Null)
           ELSE /\ purge' = [active |-> TRUE, at |-> now,
                             days |-> olderThanDays(days), ids |-> toDelete]
                /\ ret' = NoRet
    /\ mail' = NoMail
    /\ UNCHANGED <<now, subs, updates, jobs, nextId, batch, cur, runs, sched,
                   req, fan,
                   owed, dig>>

\* cleanupOldJobs, second statement: the delete, with the same WHERE clause
\* and the cutoff of the call; then return toDelete.length
CleanupDelete ==
    /\ purge.active
    /\ jobs' = [k \in DOMAIN jobs \ purgeable(jobs, purge.at, purge.days)
                  |-> jobs[k]]
    /\ ret' = Ret("cleanupOldJobs", purge.days, DOMAIN jobs \ DOMAIN jobs',
                  Cardinality(purge.ids), FALSE, Null)
    /\ purge' = NoPurge
    /\ mail' = NoMail
    /\ UNCHANGED <<now, subs, updates, nextId, batch, cur, runs, sched, req, fan,
                   owed, dig>>

\* the clock advances by whole days
TickDays(days, bound) ==
    /\ now + days * MinutesPerDay <= bound * MinutesPerDay + MaxBackoffTime
    /\ now' = now + days * MinutesPerDay
    /\ mail' = NoMail
    /\ ret' = NoRet
    /\ UNCHANGED <<subs, updates, jobs, nextId, batch, cur, runs, sched, purge,
                   req, fan,
                   owed, dig>>

\* ---- scheduler (scheduler.ts) -------------------------------------------

DAILY_DIGEST_HOUR == 9
WEEKLY_DIGEST_DAY == 0
WEEKLY_DIGEST_HOUR == 10
CLEANUP_HOUR == 3

\* 1970-01-01 was a Thursday
EpochDay == 4

\* const todayTarget = new Date(now); todayTarget.setUTCHours(hour, 0, 0, 0)
todayTarget(t, hour) == (t \div MinutesPerDay) * MinutesPerDay + hour * 60

\* now.getUTCDay()
getUTCDay(t) == ((t \div MinutesPerDay) + EpochDay) % 7

\* faulty variant: a run at the trigger instant itself does not count
shouldRunDailyDigestStrict(t, st) ==
    IF t < todayTarget(t, DAILY_DIGEST_HOUR) THEN FALSE
    ELSE IF st.dailyDigest # Null
            /\ st.dailyDigest > todayTarget(t, DAILY_DIGEST_HOUR) THEN FALSE
    ELSE TRUE

shouldRunDailyDigest(t, st) ==
    IF t < todayTarget(t, DAILY_DIGEST_HOUR) THEN FALSE
    ELSE IF st.dailyDigest # Null
            /\ st.dailyDigest >= todayTarget(t, DAILY_DIGEST_HOUR) THEN FALSE
    ELSE TRUE

shouldRunWeeklyDigest(t, st) ==
    IF getUTCDay(t) # WEEKLY_DIGEST_DAY THEN FALSE
    ELSE IF t < todayTarget(t, WEEKLY_DIGEST_HOUR) THEN FALSE
    ELSE IF st.weeklyDigest # Null
            /\ st.weeklyDigest >= todayTarget(t, WEEKLY_DIGEST_HOUR) THEN FALSE
    ELSE TRUE

shouldRunCleanup(t, st) ==
    IF t < todayTarget(t, CLEANUP_HOUR) THEN FALSE
    ELSE IF st.cleanup # Null
            /\ st.cleanup >= todayTarget(t, CLEANUP_HOUR) THEN FALSE
    ELSE TRUE

\* the three if statements of runSchedulerTick
shouldRun(c, t, st) ==
    IF c = "dailyDigest" THEN shouldRunDailyDigest(t, st)
    ELSE IF c = "weeklyDigest" THEN shouldRunWeeklyDigest(t, st)
    ELSE shouldRunCleanup(t, st)

\* a tick: where it is, (ghost) whether one of its cadence calls threw and
\* (ghost) the UTC day on which it passed the gate of the call it awaits
Idle == [at |-> "idle", c |-> "none", threw |-> FALSE, day |-> Null]

\* runSchedulerTick, top to bottom: daily, weekly, cleanup, job processor
following(c) ==
    IF c = "dailyDigest" THEN [at |-> "check", c |-> "weeklyDigest"]
    ELSE IF c = "weeklyDigest" THEN [at |-> "check", c |-> "cleanup"]
    ELSE [at |-> "drain", c |-> "none"]

\* faulty variant: the error of a cadence call ends the tick
afterCadenceUncaught(c, threw) ==
    IF threw THEN [at |-> "idle", c |-> "none"] ELSE following(c)

\* try { await ...; } catch (error) { console.error(...) }: the tick goes
\* on with the next statement whether the call threw or not
afterCadence(c, threw) == following(c)

\* scheduleState.<cadence> = new Date() is the statement after the await in
\* the try block: it is skipped when the call throws
lastRunAfter(st, c, threw, t) == IF threw THEN st ELSE [st EXCEPT ![c] = t]

\* a new tick: the startup call, or the interval timer, which does not
\* wait for the previous tick
TickStart(p) ==
    /\ tick[p].at = "idle"
    /\ batch[p] = {}
    /\ cur[p] = NoJob
    /\ p = "t2" => tick["t1"].at # "idle"
    /\ tick' = [tick EXCEPT ![p] =
                  [at |-> "check", c |-> "dailyDigest", threw |-> FALSE,
                   day |-> Null]]
    /\ mail' = NoMail
    /\ ret' = NoRet
    /\ UNCHANGED <<now, subs, updates, jobs, nextId, batch, cur, runs,
                   scheduleState, fired, purge,
                   req, fan,
                   owed, dig>>

\* the ghost count of the runs of a cadence for UTC day d: the calls that
\* returned, counted for the day on which the tick passed the gate
firedAfter(F, c, threw, d) ==
    IF threw THEN F
    ELSE [F EXCEPT ![c] =
            IF F[c].day = d
            THEN [day |-> d, count |-> Min(F[c].count + 1, 2)]
            ELSE [day |-> d, count |-> 1]]

\* if (shouldRun...()) { try { await <call>
TickCheck(p) ==
    /\ tick[p].at = "check"
    /\ tick' = [tick EXCEPT ![p] =
                  IF shouldRun(tick[p].c, now, scheduleState)
                  THEN [@ EXCEPT !.at = "run", !.day = now \div MinutesPerDay]
                  ELSE [@ EXCEPT !.at = following(tick[p].c).at,
                                 !.c = following(tick[p].c).c]]
    /\ mail' = NoMail
    /\ ret' = NoRet
    /\ UNCHANGED <<now, subs, updates, jobs, nextId, batch, cur, runs,
                   scheduleState, fired, purge,
                   req, fan,
                   owed, dig>>

\* what the call of cadence c makes of the job table when it returns
cadenceCall(c, S, J, id, t) ==
    IF c = "dailyDigest" THEN queueDailyDigests(S, J, id, t)
    ELSE IF c = "weeklyDigest" THEN queueWeeklyDigests(S, J, id, t)
    ELSE cleanupOldJobs(J, t, RETENTION_DAYS).jobs

\* ... and when it throws: some of the projects may have been enqueued
\* already; the purge has deleted nothing before its last statement
cadenceCallThrown(c, S, J, id, t) ==
    IF c = "cleanup" THEN {J}
    ELSE LET f == IF c = "dailyDigest" THEN "daily" ELSE "weekly"
             type == IF c = "dailyDigest" THEN "daily_digest" ELSE "weekly_digest"
         IN  {enqueueEach(J, id, type, Q, t) :
                 Q \in {X \in SUBSET ProjectsWith(S, f) : X # ProjectsWith(S, f)
                                                         \/ X = {}}}

\* the awaited call returns or throws; then the statement after it
TickRun(p, threw) ==
    /\ tick[p].at = "run"
    /\ LET c == tick[p].c
       IN  /\ IF threw
              THEN jobs' \in cadenceCallThrown(c, subs, jobs, nextId.job, now)
              ELSE jobs' = cadenceCall(c, subs, jobs, nextId.job, now)
           /\ Cardinality(DOMAIN jobs' \ DOMAIN jobs) + nextId.job - 1 <= MaxJobs
           /\ nextId' = [nextId EXCEPT
                           !.job = @ + Cardinality(DOMAIN jobs' \ DOMAIN jobs)]
           /\ scheduleState' = lastRunAfter(scheduleState, c, threw, now)
           /\ fired' = firedAfter(fired, c, threw, tick[p].day)
           /\ tick' = [tick EXCEPT ![p] =
                         [at |-> afterCadence(c, threw).at,
                          c |-> afterCadence(c, threw).c,
                          threw |-> @.threw \/ threw,
                          day |-> Null]]
           /\ ret' = Ret(c, 0, DOMAIN jobs' \ DOMAIN jobs,
                         Cardinality(DOMAIN jobs \ DOMAIN jobs'), threw, Null)
    /\ mail' = NoMail
    /\ UNCHANGED <<now, subs, updates, batch, cur, runs, purge,
                   req, fan,
                   owed, dig>>

\* await runJobProcessor(): const jobs = await getPendingJobs(10)
TickDrain(p) ==
    /\ tick[p].at = "drain"
    /\ \E S \in getPendingJobs(jobs, now, PENDING_LIMIT) :
          /\ batch' = [batch EXCEPT ![p] = {claimed(jobs, j) : j \in S}]
          /\ ret' = Ret("getPendingJobs", PENDING_LIMIT, S, Cardinality(S),
                         FALSE, Null)
    /\ tick' = [tick EXCEPT ![p] = [@ EXCEPT !.at = "process"]]
    /\ mail' = NoMail
    /\ UNCHANGED <<now, subs, updates, jobs, nextId, cur, runs,
                   scheduleState, fired, purge,
                   req, fan,
                   owed, dig>>

\* runJobProcessor has gone through its jobs: the tick returns
TickEnd(p) ==
    /\ tick[p].at = "process"
    /\ batch[p] = {}
    /\ cur[p] = NoJob
    /\ tick' = [tick EXCEPT ![p] = Idle]
    /\ mail' = NoMail
    /\ ret' = NoRet
    /\ UNCHANGED <<now, subs, updates, jobs, nextId, batch, cur, runs,
                   scheduleState, fired, purge,
                   req, fan,
                   owed, dig>>

\* the clock advances by one hour
TickHour(bound) ==
    /\ now + 60 <= bound
    /\ now' = now + 60
    /\ mail' = NoMail
    /\ ret' = NoRet
    /\ UNCHANGED <<subs, updates, jobs, nextId, batch, cur, runs, sched, purge,
                   req, fan,
                   owed, dig>>

\* ---- specifications ----------------------------------------------------

\* The digest engine on one project: subscriptions come and go and change
\* frequency, updates are created, cadence jobs are enqueued by hand, and
\* drain passes claim and process jobs one after the other.
NextDigest ==
    \/ Tick(MaxTime)
    \/ \E e \in RawEmails, f \in RawFrequencies : Subscribe("p1", e, f)
    \/ \E e \in RawEmails : Unsubscribe("p1", e)
    \/ CreateUpdate("p1")
    \/ TriggerDailyDigests
    \/ TriggerWeeklyDigests
    \/ RunJobProcessor("t1")
    \/ \E r \in batch["t1"] : StartJob("t1", r)
    \/ FinishJob("t1")

SpecDigest == Init /\ [][NextDigest]_vars

\* The trigger hook on two projects, within one minute: who is captured in
\* the payload.
NextTrigger ==
    \/ \E p \in Projects, e \in RawEmails, f \in RawFrequencies : Subscribe(p, e, f)
    \/ \E p \in Projects, e \in RawEmails : Unsubscribe(p, e)
    \/ \E p \in Projects : CreateUpdate(p)

SpecTrigger == Init /\ [][NextTrigger]_vars

\* The job store under failures: project p1 has one instant subscriber;
\* updates are created and deleted (a job whose update is gone throws on
\* every attempt), drain passes follow one another, and failed jobs are
\* retried by hand.
InitQueue ==
    /\ now = 1
    /\ subs = insertSubscription(<<>>, 1, "p1", "a", "instant")
    /\ updates = <<>>
    /\ jobs = <<>>
    /\ nextId = [sub |-> 2, update |-> 1, job |-> 1]
    /\ batch = [p \in Passes |-> {}]
    /\ cur = [p \in Passes |-> NoJob]
    /\ runs = [j \in 1..MaxJobs |-> 0]
    /\ mail = NoMail
    /\ scheduleState = [c \in Cadences |-> Null]
    /\ tick = [p \in Passes |->
                [at |-> "idle", c |-> "none", threw |-> FALSE, day |-> Null]]
    /\ fired = [c \in Cadences |-> [day |-> Null, count |-> 0]]
    /\ ret = NoRet
    /\ purge = NoPurge
    /\ req = [r \in Requests |-> NoRequest]
    /\ fan = NoFanOut
    /\ owed = [s \in 1..MaxSubs |-> {}]
    /\ dig = NoDigest

NextQueue ==
    \/ Tick(MaxBackoffTime)
    \/ CreateUpdate("p1")
    \/ \E u \in 1..MaxUpdates : DeleteUpdate(u)
    \/ RunJobProcessor("t1")
    \/ \E r \in batch["t1"] : StartJob("t1", r)
    \/ FinishJob("t1")
    \/ \E j \in 1..MaxJobs : RetryJob(j)

SpecQueue == InitQueue /\ [][NextQueue]_vars

\* The same, with the interval timer starting a drain pass while the
\* previous one is still running (startScheduler: setInterval starts
\* runSchedulerTick every intervalMs, whether or not the last tick returned).
NextOverlap ==
    \/ Tick(MaxBackoffTime)
    \/ CreateUpdate("p1")
    \/ \E u \in 1..MaxUpdates : DeleteUpdate(u)
    \/ \E p \in Passes : RunJobProcessor(p)
    \/ \E p \in Passes : \E r \in batch[p] : StartJob(p, r)
    \/ \E p \in Passes : FinishJob(p)
    \/ \E j \in 1..MaxJobs : RetryJob(j)

SpecOverlap == InitQueue /\ [][NextOverlap]_vars

\* The scheduler: project p1 has a daily and project p2 a weekly
\* subscriber; the clock starts on Saturday 1970-01-03 at 22:00 UTC and
\* advances by the hour; one tick follows the other; cadence calls may
\* throw; the cadences are also triggered by hand.
SchedulerStart == 2 * MinutesPerDay + 22 * 60

InitScheduler ==
    /\ now = SchedulerStart
    /\ subs = insertSubscription(insertSubscription(<<>>, 1, "p1", "a", "daily"),
                                 2, "p2", "a", "weekly")
    /\ updates = <<>>
    /\ jobs = <<>>
    /\ nextId = [sub |-> 3, update |-> 1, job |-> 1]
    /\ batch = [p \in Passes |-> {}]
    /\ cur = [p \in Passes |-> NoJob]
    /\ runs = [j \in 1..MaxJobs |-> 0]
    /\ mail = NoMail
    /\ scheduleState = [c \in Cadences |-> Null]
    /\ tick = [p \in Passes |-> Idle]
    /\ fired = [c \in Cadences |-> [day |-> Null, count |-> 0]]
    /\ ret = NoRet
    /\ purge = NoPurge
    /\ req = [r \in Requests |-> NoRequest]
    /\ fan = NoFanOut
    /\ owed = [s \in 1..MaxSubs |-> {}]
    /\ dig = NoDigest

NextScheduler ==
    \/ TickHour(SchedulerStart + MaxClockHours * 60)
    \/ TickStart("t1")
    \/ TickCheck("t1")
    \/ \E threw \in BOOLEAN : TickRun("t1", threw)
    \/ TickDrain("t1")
    \/ \E r \in batch["t1"] : StartJob("t1", r)
    \/ FinishJob("t1")
    \/ TickEnd("t1")
    \/ TriggerDailyDigests
    \/ TriggerWeeklyDigests

SpecScheduler == InitScheduler /\ [][NextScheduler]_vars

\* The scheduler's gating alone: nobody is subscribed, so the cadence calls
\* enqueue nothing; the clock and the last runs are what changes.
InitShouldRun ==
    /\ now = SchedulerStart
    /\ subs = <<>>
    /\ updates = <<>>
    /\ jobs = <<>>
    /\ nextId = [sub |-> 1, update |-> 1, job |-> 1]
    /\ batch = [p \in Passes |-> {}]
    /\ cur = [p \in Passes |-> NoJob]
    /\ runs = [j \in 1..MaxJobs |-> 0]
    /\ mail = NoMail
    /\ scheduleState = [c \in Cadences |-> Null]
    /\ tick = [p \in Passes |-> Idle]
    /\ fired = [c \in Cadences |-> [day |-> Null, count |-> 0]]
    /\ ret = NoRet
    /\ purge = NoPurge
    /\ req = [r \in Requests |-> NoRequest]
    /\ fan = NoFanOut
    /\ owed = [s \in 1..MaxSubs |-> {}]
    /\ dig = NoDigest

NextShouldRun ==
    \/ TickHour(SchedulerStart + MaxClockHours * 60)
    \/ TickStart("t1")
    \/ TickCheck("t1")
    \/ \E threw \in BOOLEAN : TickRun("t1", threw)
    \/ TickDrain("t1")
    \/ TickEnd("t1")

SpecShouldRun == InitShouldRun /\ [][NextShouldRun]_vars

\* The same scheduler with the interval timer starting a tick while the
\* previous one is still running, and no failing call.
NextTicks ==
    \/ TickHour(SchedulerStart + MaxOverlapHours * 60)
    \/ \E p \in Passes : TickStart(p)
    \/ \E p \in Passes : TickCheck(p)
    \/ \E p \in Passes : TickRun(p, FALSE)
    \/ \E p \in Passes : TickDrain(p)
    \/ \E p \in Passes : \E r \in batch[p] : StartJob(p, r)
    \/ \E p \in Passes : FinishJob(p)
    \/ \E p \in Passes : TickEnd(p)

SpecTicks == InitScheduler /\ [][NextTicks]_vars

\* The cadence enqueue on two projects whose subscriptions come and go, on
\* Sunday 1970-01-04 at 10:00 UTC, when every cadence is due: one scheduler
\* tick at a time, and the manual triggers.
InitCadence ==
    /\ now = 3 * MinutesPerDay + WEEKLY_DIGEST_HOUR * 60
    /\ subs = <<>>
    /\ updates = <<>>
    /\ jobs = <<>>
    /\ nextId = [sub |-> 1, update |-> 1, job |-> 1]
    /\ batch = [p \in Passes |-> {}]
    /\ cur = [p \in Passes |-> NoJob]
    /\ runs = [j \in 1..MaxJobs |-> 0]
    /\ mail = NoMail
    /\ scheduleState = [c \in Cadences |-> Null]
    /\ tick = [p \in Passes |-> Idle]
    /\ fired = [c \in Cadences |-> [day |-> Null, count |-> 0]]
    /\ ret = NoRet
    /\ purge = NoPurge
    /\ req = [r \in Requests |-> NoRequest]
    /\ fan = NoFanOut
    /\ owed = [s \in 1..MaxSubs |-> {}]
    /\ dig = NoDigest

NextCadence ==
    \/ \E p \in Projects, e \in Emails, f \in Frequencies : Subscribe(p, e, f)
    \/ \E p \in Projects, e \in Emails : Unsubscribe(p, e)
    \/ TickStart("t1")
    \/ TickCheck("t1")
    \/ \E threw \in BOOLEAN : TickRun("t1", threw)
    \/ TickDrain("t1")
    \/ \E r \in batch["t1"] : StartJob("t1", r)
    \/ FinishJob("t1")
    \/ TickEnd("t1")
    \/ TriggerDailyDigests
    \/ TriggerWeeklyDigests

SpecCadence == InitCadence /\ [][NextCadence]_vars

\* The job store with the purge: jobs are created, processed and fail as in
\* SpecQueue, days pass, and POST /jobs/cleanup is called.
NextPurge ==
    \/ \E d \in {1, RETENTION_DAYS} : TickDays(d, MaxPurgeDays)
    \/ CreateUpdate("p1")
    \/ \E u \in 1..MaxUpdates : DeleteUpdate(u)
    \/ RunJobProcessor("t1")
    \/ \E r \in batch["t1"] : StartJob("t1", r)
    \/ FinishJob("t1")
    \/ \E days \in RawDays : CleanupJobs(days)

SpecPurge == InitQueue /\ [][NextPurge]_vars

\* The purge called while a scheduler tick is processing jobs: the select
\* and the delete of cleanupOldJobs are two awaited statements, and the
\* steps of processJob may come between them.
NextPurgeRace ==
    \/ TickDays(1, MaxPurgeDays)
    \/ CreateUpdate("p1")
    \/ \E u \in 1..MaxUpdates : DeleteUpdate(u)
    \/ RunJobProcessor("t1")
    \/ \E r \in batch["t1"] : StartJob("t1", r)
    \/ FinishJob("t1")
    \/ \E days \in RawDays : CleanupSelect(days)
    \/ CleanupDelete

SpecPurgeRace == InitQueue /\ [][NextPurgeRace]_vars

\* Subscribe requests that overlap: the lookup and the write of the route
\* are two awaited statements, and another request may write in between.
NextSubscribe ==
    \/ \E r \in Requests, p \in Projects, e \in RawEmails, f \in RawFrequencies :
          SubscribeLookup(r, p, e, f)
    \/ \E r \in Requests : SubscribeWrite(r)

SpecSubscribe == Init /\ [][NextSubscribe]_vars

\* One batched fan-out, for every number of recipients up to MaxRecipients
\* and every outcome of every send.
NextFanOut ==
    \/ \E n \in 0..MaxRecipients : FanOutStart(n)
    \/ FanOutChunk
    \/ \E k \in 1..MaxRecipients, ok \in BOOLEAN : FanOutSendReturns(k, ok)
    \/ FanOutEnd

SpecFanOut == Init /\ [][NextFanOut]_vars

\* One drain pass at a time over the instant jobs of two projects, each
\* with one instant subscriber; a job whose update was deleted throws.
InitPass ==
    /\ now = 1
    /\ subs = insertSubscription(insertSubscription(<<>>, 1, "p1", "a", "instant"),
                                 2, "p2", "a", "instant")
    /\ updates = <<>>
    /\ jobs = <<>>
    /\ nextId = [sub |-> 3, update |-> 1, job |-> 1]
    /\ batch = [p \in Passes |-> {}]
    /\ cur = [p \in Passes |-> NoJob]
    /\ runs = [j \in 1..MaxJobs |-> 0]
    /\ mail = NoMail
    /\ scheduleState = [c \in Cadences |-> Null]
    /\ tick = [p \in Passes |-> Idle]
    /\ fired = [c \in Cadences |-> [day |-> Null, count |-> 0]]
    /\ ret = NoRet
    /\ purge = NoPurge
    /\ req = [r \in Requests |-> NoRequest]
    /\ fan = NoFanOut
    /\ owed = [s \in 1..MaxSubs |-> {}]
    /\ dig = NoDigest

NextPass ==
    \/ Tick(MaxBackoffTime)
    \/ \E p \in Projects : CreateUpdate(p)
    \/ \E u \in 1..MaxUpdates : DeleteUpdate(u)
    \/ RunJobProcessor("t1")
    \/ \E r \in batch["t1"] : StartJob("t1", r)
    \/ FinishJob("t1")

SpecPass == InitPass /\ [][NextPass]_vars

\* ---- processScheduledDigest, statement by statement ----------------------

\* const subscribers = await db.select()...: the rows of the project with
\* the frequency of the job, as they are when the function starts
DigestLoad(p) ==
    /\ cur[p].type \in Scheduled
    /\ dig.at = "idle"
    /\ dig' = [NoDigest EXCEPT
                 !.at = "loop", !.job = cur[p].id,
                 !.todo = [s \in SubscribersOf(subs, cur[p].projectId,
                                               FrequencyOf(cur[p].type))
                             |-> lastSent(subs[s])]]
    /\ mail' = NoMail
    /\ ret' = NoRet
    /\ UNCHANGED <<now, subs, updates, jobs, nextId, batch, cur, runs, sched,
                   purge, req, fan, owed>>

\* the loop body up to the send: lastSent of the loaded row, the newUpdates
\* query, continue when it is empty, else sendDigestEmail is called
DigestQuery(p) ==
    /\ dig.at = "loop"
    /\ \E s \in DOMAIN dig.todo :
          LET ups  == newUpdates(updates, cur[p].projectId, dig.todo[s])
              rest == [x \in DOMAIN dig.todo \ {s} |-> dig.todo[x]]
          IN  dig' = IF ups = {}
                     THEN [dig EXCEPT !.todo = rest]
                     ELSE [dig EXCEPT !.at = "sending", !.todo = rest,
                                      !.sub = s, !.prev = dig.todo[s],
                                      !.ups = ups]
    /\ mail' = NoMail
    /\ ret' = NoRet
    /\ UNCHANGED <<now, subs, updates, jobs, nextId, batch, cur, runs, sched,
                   purge, req, fan, owed>>

\* the send returns: if (result.success) await updateLastSentAt([id]),
\* which writes new Date() of that moment
DigestSendReturns(p, ok) ==
    /\ dig.at = "sending"
    /\ subs' = IF ok THEN updateLastSentAt(subs, {dig.sub}, now) ELSE subs
    /\ mail' = [job |-> dig.job, type |-> cur[p].type, threw |-> FALSE,
                sends |-> {[sub |-> dig.sub, ups |-> dig.ups, ok |-> ok,
                            prev |-> IF dig.sub \in DOMAIN subs
                                     THEN subs[dig.sub].lastSentAt
                                     ELSE Null]}]
    /\ owed' = owedAfter(owed, mail'.sends)
    /\ dig' = [dig EXCEPT !.at = "loop", !.sub = 0, !.prev = 0, !.ups = {}]
    /\ ret' = NoRet
    /\ UNCHANGED <<now, updates, jobs, nextId, batch, cur, runs, sched,
                   purge, req, fan>>

\* the loop is over: processJob goes on to markJobCompleted
DigestEnd(p) ==
    /\ dig.at = "loop"
    /\ DOMAIN dig.todo = {}
    /\ jobs' = markJobCompleted(jobs, cur[p].id)
    /\ cur' = [cur EXCEPT ![p] = NoJob]
    /\ dig' = NoDigest
    /\ mail' = NoMail
    /\ ret' = NoRet
    /\ UNCHANGED <<now, subs, updates, nextId, batch, runs, sched,
                   purge, req, fan, owed>>

\* One drain pass over the daily digests of project p1, which has two
\* daily subscribers; updates are posted while the digest is in progress.
InitWatermark ==
    /\ now = 1
    /\ subs = insertSubscription(insertSubscription(<<>>, 1, "p1", "a", "daily"),
                                 2, "p1", "b", "daily")
    /\ updates = <<>>
    /\ jobs = <<>>
    /\ nextId = [sub |-> 3, update |-> 1, job |-> 1]
    /\ batch = [p \in Passes |-> {}]
    /\ cur = [p \in Passes |-> NoJob]
    /\ runs = [j \in 1..MaxJobs |-> 0]
    /\ mail = NoMail
    /\ scheduleState = [c \in Cadences |-> Null]
    /\ tick = [p \in Passes |-> Idle]
    /\ fired = [c \in Cadences |-> [day |-> Null, count |-> 0]]
    /\ ret = NoRet
    /\ purge = NoPurge
    /\ req = [r \in Requests |-> NoRequest]
    /\ fan = NoFanOut
    /\ owed = [s \in 1..MaxSubs |-> {}]
    /\ dig = NoDigest

NextWatermark ==
    \/ Tick(MaxBackoffTime)
    \/ CreateUpdate("p1")
    \/ TriggerDailyDigests
    \/ RunJobProcessor("t1")
    \/ \E r \in batch["t1"] : StartJob("t1", r)
    \/ DigestLoad("t1")
    \/ DigestQuery("t1")
    \/ \E ok \in BOOLEAN : DigestSendReturns("t1", ok)
    \/ DigestEnd("t1")

SpecWatermark == InitWatermark /\ [][NextWatermark]_vars

\* ---- the queue until it is empty -----------------------------------------

\* a backlog one larger than a drain pass claims
Backlog == PENDING_LIMIT + 1

\* a stored time one minute later, seen from the present
OneMinuteOlder(t) == IF t = Null \/ t = EpochStart THEN t ELSE t - 1

\* A minute passes.  The clock is unbounded, and only the distance of a
\* stored time from the present is ever read (scheduled_for <= now), so the
\* present stays at now and every stored time moves one minute back; a
\* time that has reached the epoch stays there.
Elapse ==
    /\ jobs' = [j \in DOMAIN jobs |->
                  [jobs[j] EXCEPT !.scheduledFor = OneMinuteOlder(@),
                                  !.createdAt = OneMinuteOlder(@)]]
    /\ updates' = [u \in DOMAIN updates |->
                     [updates[u] EXCEPT !.createdAt = OneMinuteOlder(@)]]
    /\ subs' = [s \in DOMAIN subs |->
                  [subs[s] EXCEPT !.lastSentAt = OneMinuteOlder(@)]]
    /\ mail' = NoMail
    /\ ret' = NoRet
    /\ UNCHANGED <<now, nextId, batch, cur, runs, sched, purge, req, fan,
                   owed, dig>>

\* Project p1 has one subscriber.  While it was a daily subscriber the
\* daily digests were queued by hand PENDING_LIMIT times; it then changed
\* to instant and update 1 was posted, which queued instant_digest job
\* Backlog.  All of that lies at least a minute back.  From here on update
\* 1 may be deleted (its job then throws on every attempt), the failed job
\* is retried by hand, and one drain pass follows the other.
InitTermination ==
    /\ now = 1
    /\ subs = insertSubscription(<<>>, 1, "p1", "a", "instant")
    /\ updates = [u \in {1} |-> [projectId |-> "p1", createdAt |-> EpochStart]]
    /\ jobs = [j \in 1..Backlog |->
                 IF j = Backlog
                 THEN enqueueJob(<<>>, j, "instant_digest", "p1", 1, {1},
                                 EpochStart)[j]
                 ELSE enqueueJob(<<>>, j, "daily_digest", "p1", NoUpdate, {},
                                 EpochStart)[j]]
    /\ nextId = [sub |-> 2, update |-> 2, job |-> Backlog + 1]
    /\ batch = [p \in Passes |-> {}]
    /\ cur = [p \in Passes |-> NoJob]
    /\ runs = [j \in 1..Backlog |-> 0]
    /\ mail = NoMail
    /\ scheduleState = [c \in Cadences |-> Null]
    /\ tick = [p \in Passes |-> Idle]
    /\ fired = [c \in Cadences |-> [day |-> Null, count |-> 0]]
    /\ ret = NoRet
    /\ purge = NoPurge
    /\ req = [r \in Requests |-> NoRequest]
    /\ fan = NoFanOut
    /\ owed = [s \in 1..MaxSubs |-> {}]
    /\ dig = NoDigest

\* the claimed rows are worked through in the order of the array the
\* claim returned; of the possible orders the one by id is followed here
NextInArray(B) == {r \in B : \A x \in B : r.id <= x.id}

NextTermination ==
    \/ Elapse
    \/ DeleteUpdate(1)
    \/ RunJobProcessor("t1")
    \/ \E r \in NextInArray(batch["t1"]) : StartJob("t1", r)
    \/ FinishJob("t1")
    \/ RetryJob(Backlog)

\* setInterval keeps starting ticks, time passes, and every database call
\* and every send returns
FairTermination ==
    /\ WF_vars(Elapse)
    /\ WF_vars(RunJobProcessor("t1"))
    /\ WF_vars(\E r \in NextInArray(batch["t1"]) : StartJob("t1", r))
    /\ WF_vars(FinishJob("t1"))

SpecTermination == InitTermination /\ [][NextTermination]_vars /\ FairTermination

\* Leaving: project p1 has two instant subscribers, who change frequency,
\* unsubscribe or are removed by the owner while updates are posted, daily
\* digests queued and jobs processed.
InitLeave ==
    /\ now = 1
    /\ subs = insertSubscription(insertSubscription(<<>>, 1, "p1", "a", "instant"),
                                 2, "p1", "b", "instant")
    /\ updates = <<>>
    /\ jobs = <<>>
    /\ nextId = [sub |-> 3, update |-> 1, job |-> 1]
    /\ batch = [p \in Passes |-> {}]
    /\ cur = [p \in Passes |-> NoJob]
    /\ runs = [j \in 1..MaxJobs |-> 0]
    /\ mail = NoMail
    /\ scheduleState = [c \in Cadences |-> Null]
    /\ tick = [p \in Passes |-> Idle]
    /\ fired = [c \in Cadences |-> [day |-> Null, count |-> 0]]
    /\ ret = NoRet
    /\ purge = NoPurge
    /\ req = [r \in Requests |-> NoRequest]
    /\ fan = NoFanOut
    /\ owed = [s \in 1..MaxSubs |-> {}]
    /\ dig = NoDigest

NextLeave ==
    \/ Tick(MaxTime)
    \/ \E e \in Emails, f \in Frequencies : Subscribe("p1", e, f)
    \/ \E e \in Emails : Unsubscribe("p1", e)
    \/ \E s \in 1..MaxSubs : RemoveSubscriber("p1", s)
    \/ CreateUpdate("p1")
    \/ TriggerDailyDigests
    \/ RunJobProcessor("t1")
    \/ \E r \in batch["t1"] : StartJob("t1", r)
    \/ FinishJob("t1")

SpecLeave == InitLeave /\ [][NextLeave]_vars

\* The administrative retry with its response: the queue of SpecQueue, and
\* retry requests for every id, known or not, whatever the job's status.
NextRetry ==
    \/ Tick(MaxBackoffTime)
    \/ CreateUpdate("p1")
    \/ \E u \in 1..MaxUpdates : DeleteUpdate(u)
    \/ RunJobProcessor("t1")
    \/ \E r \in batch["t1"] : StartJob("t1", r)
    \/ FinishJob("t1")
    \/ \E j \in 1..MaxJobs : RetryJobResponded(j)

SpecRetry == InitQueue /\ [][NextRetry]_vars

Spec == SpecDigest

\* ---- properties ---------------------------------------------------------

\* C1: in any step, a subscription's last_sent_at changes only if the
\* processJob run that ended in this step sent that subscription an email
\* for which the transport reported success; the subscriptions whose send
\* failed, that were skipped or that are no recipient keep their value.
C1_WatermarkOnlyAfterSuccess ==
    [][\A s \in DOMAIN subs \cap DOMAIN subs' :
          subs'[s].lastSentAt # subs[s].lastSentAt
             => \E m \in mail'.sends : m.sub = s /\ m.ok]_vars

\* an instant job with one successful and one failed send has just ended
C1_Witness ==
    /\ mail.type = "instant_digest"
    /\ \E m1, m2 \in mail.sends :
          /\ m1.ok /\ subs[m1.sub].lastSentAt = now
          /\ ~m2.ok /\ subs[m2.sub].lastSentAt = m2.prev

\* C2: the last_sent_at of a subscription row never decreases and never
\* returns to NULL, whatever operation is applied.
C2_WatermarkMonotone ==
    [][\A s \in DOMAIN subs \cap DOMAIN subs' :
          subs[s].lastSentAt # Null
             => /\ subs'[s].lastSentAt # Null
                /\ subs'[s].lastSentAt >= subs[s].lastSentAt]_vars

\* a watermark that was already set has been advanced by a later send, on
\* a row whose frequency was changed by a second subscribe in between
C2_Witness ==
    \E m \in mail.sends :
        /\ m.ok /\ m.prev # Null /\ subs[m.sub].lastSentAt > m.prev
        /\ mail.type = "daily_digest"
        /\ \E j \in DOMAIN jobs :
              jobs[j].type = "instant_digest" /\ m.sub \in jobs[j].subscriberIds

\* C5: a daily or weekly job that runs without an exception ends with
\* status completed, however many sends failed; the watermark becomes now
\* for exactly the subscriptions whose send succeeded and keeps its value
\* for every other one.
C5_PartialFailureCompletes ==
    [][(mail'.type \in Scheduled /\ ~mail'.threw)
          => /\ jobs'[mail'.job].status = "completed"
             /\ \A s \in DOMAIN subs :
                   subs'[s].lastSentAt =
                      IF \E m \in mail'.sends : m.sub = s /\ m.ok
                      THEN now ELSE subs[s].lastSentAt]_vars

\* a daily job with one successful and one failed send has ended completed
C5_Witness ==
    /\ mail.type = "daily_digest"
    /\ jobs[mail.job].status = "completed"
    /\ \E m1, m2 \in mail.sends :
          /\ m1.ok /\ subs[m1.sub].lastSentAt = now /\ m1.prev # now
          /\ ~m2.ok /\ subs[m2.sub].lastSentAt = m2.prev

\* C6: in a daily or weekly job, a subscriber of the job's project and
\* frequency for whom no update of the project has created_at > last_sent_at
\* gets no transport call and keeps last_sent_at.
C6_NoEmptyDigest ==
    [][mail'.type \in Scheduled
          => \A s \in DOMAIN subs :
                ( /\ subs[s].projectId = jobs[mail'.job].projectId
                  /\ subs[s].frequency = FrequencyOf(mail'.type)
                  /\ \A u \in DOMAIN updates :
                        updates[u].projectId = subs[s].projectId
                           => /\ subs[s].lastSentAt # Null
                              /\ updates[u].createdAt <= subs[s].lastSentAt )
                => /\ \A m \in mail'.sends : m.sub # s
                   /\ subs'[s].lastSentAt = subs[s].lastSentAt]_vars

\* a scheduled job has sent a digest to one subscriber and skipped another
\* one, whose watermark is at or after every update of the project
C6_Witness ==
    /\ mail.type \in Scheduled
    /\ mail.sends # {}
    /\ \E s \in DOMAIN subs :
          /\ subs[s].frequency = FrequencyOf(mail.type)
          /\ subs[s].lastSentAt # Null
          /\ \A m \in mail.sends : m.sub # s
          /\ \E u \in DOMAIN updates : updates[u].createdAt = subs[s].lastSentAt
          /\ \A u \in DOMAIN updates : updates[u].createdAt <= subs[s].lastSentAt

\* the updates of project p created after watermark w: all of them when w
\* is NULL
UpdatesSince(U, p, w) ==
    {u \in DOMAIN U : U[u].projectId = p /\ (w = Null \/ U[u].createdAt > w)}

\* C7 (as claimed): a daily or weekly job sends every subscriber of its
\* project and frequency exactly one email, holding exactly the updates of
\* the project created after the subscriber's last_sent_at, and a successful
\* send sets last_sent_at to now.
C7_OneDigestForEverySubscriber ==
    [][mail'.type \in Scheduled
          => \A s \in DOMAIN subs :
                ( /\ subs[s].projectId = jobs[mail'.job].projectId
                  /\ subs[s].frequency = FrequencyOf(mail'.type) )
                => /\ Cardinality({m \in mail'.sends : m.sub = s}) = 1
                   /\ \A m \in mail'.sends :
                         m.sub = s
                           => /\ m.ups = UpdatesSince(updates, subs[s].projectId,
                                                     subs[s].lastSentAt)
                              /\ m.ok => subs'[s].lastSentAt = now]_vars

\* C7 (amended): ... sends every subscriber of its project and frequency
\* that has at least one such update exactly one email holding exactly
\* those updates, sends to nobody else, and a successful send sets
\* last_sent_at to now.
C7_OneDigestForEverySubscriberWithNews ==
    [][mail'.type \in Scheduled
          => /\ \A m \in mail'.sends :
                   /\ m.sub \in DOMAIN subs
                   /\ subs[m.sub].projectId = jobs[mail'.job].projectId
                   /\ subs[m.sub].frequency = FrequencyOf(mail'.type)
             /\ \A s \in DOMAIN subs :
                   ( /\ subs[s].projectId = jobs[mail'.job].projectId
                     /\ subs[s].frequency = FrequencyOf(mail'.type)
                     /\ UpdatesSince(updates, subs[s].projectId,
                                     subs[s].lastSentAt) # {} )
                   => /\ Cardinality({m \in mail'.sends : m.sub = s}) = 1
                      /\ \A m \in mail'.sends :
                            m.sub = s
                              => /\ m.ups = UpdatesSince(updates, subs[s].projectId,
                                                        subs[s].lastSentAt)
                                 /\ m.ok => subs'[s].lastSentAt = now]_vars

\* a weekly catch-up: one email holds two updates, one of them older than
\* the other, and the watermark has jumped from an earlier value to now
C7_Witness ==
    /\ mail.type = "weekly_digest"
    /\ \E m \in mail.sends :
          /\ m.ok
          /\ Cardinality(m.ups) = 2
          /\ \E u1, u2 \in m.ups : updates[u1].createdAt < updates[u2].createdAt
          /\ subs[m.sub].lastSentAt = now

\* C8: the step that inserts an update enqueues no job when the project
\* has no instant subscription, and otherwise exactly one pending
\* instant_digest job for that project and update whose subscriber_ids are
\* the ids of the project's instant subscriptions of that moment.
C8_TriggerCapturesInstantSubscribers ==
    [][\A u \in DOMAIN updates' \ DOMAIN updates :
          LET p    == updates'[u].projectId
              inst == {s \in DOMAIN subs :
                          subs[s].projectId = p /\ subs[s].frequency = "instant"}
              new  == DOMAIN jobs' \ DOMAIN jobs
          IN  IF inst = {}
              THEN new = {}
              ELSE \E j \in new :
                     /\ new = {j}
                     /\ jobs'[j].type = "instant_digest"
                     /\ jobs'[j].status = "pending"
                     /\ jobs'[j].projectId = p
                     /\ jobs'[j].updateId = u
                     /\ jobs'[j].subscriberIds = inst]_vars

\* the newest update has a job that captured the instant subscriber of its
\* project and not the daily one, and another update has no job at all
C8_Witness ==
    /\ \E j \in DOMAIN jobs : \E s1, s2 \in DOMAIN subs :
          /\ jobs[j].updateId = nextId.update - 1
          /\ jobs[j].subscriberIds = {s1}
          /\ subs[s1].frequency = "instant"
          /\ subs[s2].frequency = "daily"
          /\ subs[s2].projectId = jobs[j].projectId
    /\ \E u \in DOMAIN updates : \A j \in DOMAIN jobs : jobs[j].updateId # u

\* C9: the payload of a job never changes, and an instant job sends to
\* exactly the subscriptions of its payload that exist when it is processed,
\* whatever their frequency is by then.
C9_InstantSnapshot ==
    [][/\ \A j \in DOMAIN jobs \cap DOMAIN jobs' :
             jobs'[j].subscriberIds = jobs[j].subscriberIds
       /\ (mail'.type = "instant_digest" /\ ~mail'.threw)
             => {m.sub : m \in mail'.sends}
                   = jobs[mail'.job].subscriberIds \cap DOMAIN subs]_vars

\* an instant job has sent to a captured subscription that is no longer
\* instant, and not to a subscription that became instant after the enqueue
C9_Witness ==
    /\ mail.type = "instant_digest"
    /\ \E m \in mail.sends : subs[m.sub].frequency # "instant"
    /\ \E s \in DOMAIN subs :
          /\ subs[s].frequency = "instant"
          /\ s \notin jobs[mail.job].subscriberIds
          /\ \A m \in mail.sends : m.sub # s

\* C3 (as claimed): when the N-th processJob run of a job throws, the job
\* is pending again with scheduled_for = now + N * N minutes for N = 1, 2,
\* and failed with scheduled_for untouched for N = 3.
C3_BackoffAsClaimed ==
    [][\A j \in DOMAIN jobs \cap DOMAIN jobs' :
          (mail'.job = j /\ mail'.threw)
             => /\ runs[j] \in {1, 2}
                     => /\ jobs'[j].status = "pending"
                        /\ jobs'[j].scheduledFor = now + runs[j] * runs[j]
                /\ runs[j] = 3
                     => /\ jobs'[j].status = "failed"
                        /\ jobs'[j].scheduledFor = jobs[j].scheduledFor]_vars

\* C4 (as claimed): a job is failed only after MAX_ATTEMPTS processJob
\* runs since it was enqueued or reset; after fewer throwing runs it is
\* pending again.
C4_FailedOnlyAfterMaxAttempts ==
    \A j \in DOMAIN jobs :
        /\ jobs[j].status = "failed" => runs[j] = MAX_ATTEMPTS
        /\ (mail.job = j /\ mail.threw /\ runs[j] < MAX_ATTEMPTS)
              => jobs[j].status = "pending"

\* C10 (as claimed): the status of a job changes only along
\* pending -> processing -> {completed, pending, failed}; completed and
\* failed are never left.
C10_StatusTransitions ==
    [][\A j \in DOMAIN jobs \cap DOMAIN jobs' :
          jobs'[j].status # jobs[j].status
             => <<jobs[j].status, jobs'[j].status>> \in
                  {<<"pending", "processing">>, <<"processing", "completed">>,
                   <<"processing", "pending">>, <<"processing", "failed">>}]_vars

C12_LastRunSetEvenOnThrow ==
    [][\A p \in Passes :
          (tick[p].at = "run" /\ tick'[p] # tick[p])
             => /\ scheduleState'[tick[p].c] = now
                /\ ~shouldRun(tick[p].c, now, scheduleState')]_vars

\* today's instant of the given hour, and Sunday, counted from the epoch
\* (day 0 is Thursday 1970-01-01, day 3 the first Sunday)
TodayAt(t, hour) == t - (t % MinutesPerDay) + hour * 60

IsSunday(t) == (t \div MinutesPerDay) % 7 = 3

\* the last-run values that are tried: none, and every hour from the day
\* before the start to the end of the run
LastRuns ==
    {Null} \cup {SchedulerStart + 60 * k : k \in (0 - 24)..MaxClockHours}

\* C13: at every time and for every last run, daily is due iff now is at or
\* after today's 09:00 UTC and the last run is none or before today's 09:00;
\* weekly iff moreover (with 10:00) today is a Sunday; cleanup as daily, with
\* 03:00.
C13_ShouldRun ==
    \A lr \in LastRuns :
        LET st == [c \in Cadences |-> lr]
        IN  /\ shouldRunDailyDigest(now, st)
                 <=> /\ now >= TodayAt(now, 9)
                     /\ (lr = Null \/ lr < TodayAt(now, 9))
            /\ shouldRunWeeklyDigest(now, st)
                 <=> /\ IsSunday(now)
                     /\ now >= TodayAt(now, 10)
                     /\ (lr = Null \/ lr < TodayAt(now, 10))
            /\ shouldRunCleanup(now, st)
                 <=> /\ now >= TodayAt(now, 3)
                     /\ (lr = Null \/ lr < TodayAt(now, 3))

\* Sunday after 10:00: daily ran today at 09:00 sharp and is not due, weekly
\* has never run and is due, cleanup ran the day before and is due again
C13_Witness ==
    /\ IsSunday(now)
    /\ scheduleState.dailyDigest = TodayAt(now, 9)
    /\ ~shouldRunDailyDigest(now, scheduleState)
    /\ scheduleState.weeklyDigest = Null
    /\ shouldRunWeeklyDigest(now, scheduleState)
    /\ scheduleState.cleanup # Null
    /\ scheduleState.cleanup < TodayAt(now, 3)
    /\ shouldRunCleanup(now, scheduleState)

\* C14: within one process lifetime the scheduled action of each cadence
\* fires at most once in its window (one UTC day; for the weekly enqueue
\* that day is a Sunday), over any sequence of ticks, a tick started while
\* an earlier one awaits its call included. fired[c].count is the number
\* of runs of cadence c for the latest UTC day for which it ran.
C14_AtMostOncePerWindow == \A c \in Cadences : fired[c].count <= 1

\* C15: the manual trigger for daily or weekly digests enqueues the
\* cadence jobs and leaves every last run unchanged, so that shouldRun of
\* each cadence has the same value right after the trigger as right
\* before it.
C15_TriggerLeavesLastRun ==
    [][ret'.op \in {"triggerDailyDigests", "triggerWeeklyDigests"}
         => /\ scheduleState' = scheduleState
            /\ \A c \in Cadences :
                  shouldRun(c, now', scheduleState')
                     = shouldRun(c, now, scheduleState)
            /\ ret'.ids = DOMAIN jobs' \ DOMAIN jobs
            /\ \A j \in ret'.ids :
                  jobs'[j].type = (IF ret'.op = "triggerDailyDigests"
                                   THEN "daily_digest" ELSE "weekly_digest")]_vars

\* a manual daily trigger has enqueued a job during a tick that is about
\* to evaluate shouldRunDailyDigest, and the scheduled run is still due
C15_Witness ==
    /\ ret.op = "triggerDailyDigests"
    /\ ret.ids # {}
    /\ tick["t1"].at = "check"
    /\ tick["t1"].c = "dailyDigest"
    /\ shouldRun("dailyDigest", now, scheduleState)

\* C16: every scheduler tick runs the job processor on up to 10 ready
\* jobs, whether or not a cadence fired on it and also when a cadence call
\* threw on it: a tick ends only out of the job processor, it enters the
\* job processor only by reading the ready jobs (all of them, or 10 when
\* there are more), and a tick that is past its last cadence goes there.
C16_EveryTickDrains ==
    [][\A p \in Passes :
          /\ (tick[p].at # "idle" /\ tick'[p].at = "idle")
                => tick[p].at = "process"
          /\ (tick[p].at # "process" /\ tick'[p].at = "process")
                => /\ tick[p].at = "drain"
                   /\ ret'.op = "getPendingJobs"
                   /\ ret'.ids \subseteq {j \in DOMAIN jobs :
                                            /\ jobs[j].status = "pending"
                                            /\ jobs[j].scheduledFor <= now}
                   /\ ret'.count = Cardinality(ret'.ids)
                   /\ ret'.count =
                         Min(10, Cardinality({j \in DOMAIN jobs :
                                                /\ jobs[j].status = "pending"
                                                /\ jobs[j].scheduledFor <= now}))
                   /\ {r.id : r \in batch'[p]} = ret'.ids
          /\ (tick[p].at \in {"check", "run"} /\ tick[p].c = "cleanup"
                /\ tick'[p] # tick[p])
                => tick'[p].at \in {"run", "drain"}]_vars

\* the tick whose cleanup call threw has read a ready job in its job
\* processor
C16_Witness ==
    /\ tick["t1"].at = "process"
    /\ tick["t1"].threw
    /\ ret.op = "getPendingJobs"
    /\ ret.ids # {}
    /\ batch["t1"] # {}

\* the cadence fired by a step, if it is a firing that completed without
\* error: by a scheduler tick or by a manual trigger
FiredFrequency(r) ==
    IF r.op \in {"dailyDigest", "triggerDailyDigests"} /\ ~r.threw THEN "daily"
    ELSE IF r.op \in {"weeklyDigest", "triggerWeeklyDigests"} /\ ~r.threw
    THEN "weekly"
    ELSE "none"

\* C17: a cadence firing (scheduled or manual) that completes without
\* error enqueues exactly one {cadence}_digest job for each distinct
\* project that has at least one subscription of that frequency, and no
\* job for any other project, however many subscribers of that frequency
\* a project has.
C17_OneJobPerProject ==
    [][FiredFrequency(ret') # "none" =>
          LET f == FiredFrequency(ret')
              type == IF f = "daily" THEN "daily_digest" ELSE "weekly_digest"
              new == DOMAIN jobs' \ DOMAIN jobs
              subscribed(p) == \E s \in DOMAIN subs :
                                  /\ subs[s].projectId = p
                                  /\ subs[s].frequency = f
          IN  /\ \A p \in Projects :
                    Cardinality({j \in new : jobs'[j].projectId = p})
                       = IF subscribed(p) THEN 1 ELSE 0
              /\ \A j \in new : /\ jobs'[j].type = type
                                /\ jobs'[j].status = "pending"
                                /\ jobs'[j].projectId \in Projects
              /\ \A j \in DOMAIN jobs : j \in DOMAIN jobs' /\ jobs'[j] = jobs[j]]_vars

\* a scheduled daily firing has enqueued one job, for the project that has
\* two daily subscribers
C17_Witness ==
    /\ ret.op = "dailyDigest"
    /\ ~ret.threw
    /\ Cardinality(ret.ids) = 1
    /\ \E s1, s2 \in DOMAIN subs :
          /\ s1 # s2
          /\ subs[s1].projectId = subs[s2].projectId
          /\ subs[s1].frequency = "daily"
          /\ subs[s2].frequency = "daily"
          /\ \A j \in ret.ids : jobs[j].projectId = subs[s1].projectId

\* C18: getPendingJobs(limit) returns at most limit jobs, each of them
\* pending with scheduled_for <= now at the time of the call, and changes
\* no job row; and no job is handed to processing (processJob called on
\* it) before its scheduled_for time.
C18_ClaimReady ==
    [][/\ ret'.op = "getPendingJobs"
          => /\ ret'.count <= ret'.arg
             /\ ret'.count = Cardinality(ret'.ids)
             /\ \A j \in ret'.ids : /\ j \in DOMAIN jobs
                                    /\ jobs[j].status = "pending"
                                    /\ jobs[j].scheduledFor <= now
             /\ jobs' = jobs
       /\ \A p \in Passes :
             (cur'[p] # cur[p] /\ cur'[p] # NoJob)
                => jobs[cur'[p].id].scheduledFor <= now]_vars

\* C19: cleanupOldJobs(days) deletes exactly the jobs whose status is
\* completed or failed and whose created_at is at or before the time of
\* the call minus days, returns the number of jobs it deleted, and neither
\* deletes nor modifies any other job (pending, processing, or younger
\* than that).
C19_PurgeExactlyOldTerminal ==
    [][ret'.op = "cleanupOldJobs" =>
          LET called == IF purge.active THEN purge.at ELSE now
              old == {j \in DOMAIN jobs :
                        /\ jobs[j].status \in {"completed", "failed"}
                        /\ jobs[j].createdAt <= called - ret'.arg * MinutesPerDay}
          IN  /\ DOMAIN jobs' = DOMAIN jobs \ old
              /\ \A j \in DOMAIN jobs' : jobs'[j] = jobs[j]
              /\ ret'.ids = old
              /\ ret'.count = Cardinality(old)]_vars

\* C20: a purge that directly follows a purge with the same cutoff (the
\* same days at the same time, no other operation in between) returns 0
\* and leaves the job store unchanged.
C20_SecondPurgeDeletesNothing ==
    [][(ret.op = "cleanupOldJobs" /\ ret'.op = "cleanupOldJobs"
          /\ ret'.arg = ret.arg /\ now' = now)
         => /\ ret'.count = 0
            /\ ret'.ids = {}
            /\ jobs' = jobs]_vars

\* the second of two purges in a row has returned 0 after the first one
\* deleted a job
C20_Witness ==
    /\ ret.op = "cleanupOldJobs"
    /\ ret.prev # Null
    /\ ret.prev > 0
    /\ ret.count = 0

\* C21: after any sequence or interleaving of subscribe requests there is
\* at most one subscription row per (project, normalised email); a request
\* whose lookup finds a row for the pair sets that row's frequency to the
\* requested one and inserts nothing, so the number of rows of the project
\* does not change.
C21_OneRowPerProjectEmail ==
    [][/\ \A s1, s2 \in DOMAIN subs' :
             (subs'[s1].projectId = subs'[s2].projectId
                /\ subs'[s1].email = subs'[s2].email) => s1 = s2
       /\ \A r \in Requests :
             (req[r].at = "update" /\ req'[r].at = "idle")
                => /\ DOMAIN subs' = DOMAIN subs
                   /\ subs'[req[r].id].frequency
                         = (IF req[r].f \in {"instant", "daily", "weekly"}
                            THEN req[r].f ELSE "instant")
                   /\ \A s \in DOMAIN subs \ {req[r].id} : subs'[s] = subs[s]]_vars

\* two overlapping requests for a new pair: the insert of the second was
\* rejected, one row exists
C21_Witness ==
    /\ ret.op = "subscribe"
    /\ ret.threw
    /\ Cardinality(DOMAIN subs) = 1

\* the chunk of five that recipient k belongs to
ChunkOf(k) == (k - 1) \div 5

\* C22: the batched fan-out with chunk size 5 never has more than 5 sends
\* in flight, starts no send of a later chunk before every send of the
\* chunks before it has returned, and returns a result for every
\* recipient, each the outcome of that recipient's own send, also when
\* sends to other recipients fail.
C22_BoundedFanOut ==
    [][/\ Cardinality(fan'.inflight) <= 5
       /\ \A k \in fan'.inflight \ fan.inflight :
             \A j \in 1..fan'.n :
                ChunkOf(j) < ChunkOf(k)
                   => j \in DOMAIN fan'.results /\ j \notin fan'.inflight
       /\ \A j \in DOMAIN fan.results :
             \/ (j \in DOMAIN fan'.results /\ fan'.results[j] = fan.results[j])
             \/ (fan'.at = "loop" /\ fan'.results = <<>>)
       /\ fan'.at = "done" => DOMAIN fan'.results = 1..fan'.n]_vars

\* a fan-out to seven recipients has returned: a send of the first chunk
\* failed, and the second chunk has a success and a failure
C22_Witness ==
    /\ fan.at = "done"
    /\ fan.n = 7
    /\ ~fan.results[1]
    /\ fan.results[2]
    /\ fan.results[6]
    /\ ~fan.results[7]

\* the jobs a drain pass has claimed and not finished with
HeldBy(p) == {r.id : r \in batch[p]} \cup ({cur[p].id} \ {NoJob.id})

\* C23: job processing runs on one logical timeline: a job claimed by one
\* drain pass is not claimed or processed by another pass before the first
\* has finished with it, so that no job is in processJob twice at the same
\* time, also when the timer starts a tick while the previous one lasts.
C23_OneLogicalTimeline ==
    \A p, q \in Passes : p # q => HeldBy(p) \cap HeldBy(q) = {}

\* C24: when the send to a subscriber fails inside a digest job of any
\* type, the subscriber's watermark is not advanced, and the updates of
\* the failed email (those that still exist) are included again in the
\* next email sent to that subscriber.
C24_FailedSendIncludedAgain ==
    [][\A m \in mail'.sends :
          /\ ~m.ok => subs'[m.sub].lastSentAt = m.prev
          /\ (owed[m.sub] \cap DOMAIN updates) \subseteq m.ups]_vars

\* C25: in one drain pass, a job whose processing throws is routed through
\* mark_failed (attempts incremented, status pending with a later
\* scheduled_for, or failed), and every other job claimed in that pass
\* stays claimed until the pass starts it: a claimed job leaves the pass
\* only by being handed to processJob, and a job handed to processJob that
\* does not throw is completed.
C25_FailureDoesNotBlockPass ==
    [][\A p \in Passes :
          /\ (mail'.threw /\ mail'.job = cur[p].id /\ cur[p] # NoJob)
                => /\ batch'[p] = batch[p]
                   /\ jobs'[cur[p].id].attempts = jobs[cur[p].id].attempts + 1
                   /\ \/ jobs'[cur[p].id].status = "failed"
                      \/ /\ jobs'[cur[p].id].status = "pending"
                         /\ jobs'[cur[p].id].scheduledFor > now
          /\ \A r \in batch[p] \ batch'[p] :
                /\ cur'[p] = r
                /\ jobs'[r.id].status = "processing"
          /\ (cur[p] # NoJob /\ cur'[p] = NoJob /\ ~mail'.threw)
                => jobs'[cur[p].id].status = "completed"]_vars

\* the job of one project has thrown and is back to pending, while the job
\* of the other project, claimed in the same pass, is still to be started
C25_Witness ==
    /\ mail.threw
    /\ mail.job = 1
    /\ jobs[1].status = "pending"
    /\ jobs[1].scheduledFor > now
    /\ cur["t1"] = NoJob
    /\ \E r \in batch["t1"] : r.id = 2 /\ r.projectId # jobs[1].projectId

\* C26: whenever process_scheduled sets the last_sent_at of a daily or
\* weekly subscription to a value t, every update of the project with
\* created_at <= t is in the email just sent successfully to that
\* subscriber, or was created at or before the watermark the subscription
\* had before (and so was covered when that watermark was written); this
\* also when an update is created between the update query and the
\* watermark write.
C26_WatermarkNeverPassesUnsent ==
    [][\A s \in DOMAIN subs \cap DOMAIN subs' :
          subs'[s].lastSentAt # subs[s].lastSentAt
             => \A u \in DOMAIN updates' :
                   (/\ updates'[u].projectId = subs[s].projectId
                    /\ updates'[u].createdAt <= subs'[s].lastSentAt)
                      => \/ \E m \in mail'.sends :
                               m.sub = s /\ m.ok /\ u \in m.ups
                         \/ updates'[u].createdAt <= lastSent(subs[s])]_vars

\* a hand retry takes effect in this step: a failed job is pending again
RetryTakesEffect ==
    \E j \in DOMAIN jobs \cap DOMAIN jobs' :
        jobs[j].status = "failed" /\ jobs'[j].status = "pending"

\* C27: with ticks that keep coming, calls and sends that return, and
\* enqueues and hand retries that stop from some point on, every job of
\* the backlog is from some point on completed or failed for good: none
\* stays pending behind the jobs the limit-10 claim picks, none stays in
\* processing.
C27_EveryJobTerminates ==
    <>[][~RetryTakesEffect]_vars
        => <>[](\A j \in DOMAIN jobs : jobs[j].status \in {"completed", "failed"})

\* the instant job, whose update was deleted, has failed after its retries
\* and all PENDING_LIMIT daily jobs of the backlog are completed
C27_Witness ==
    /\ jobs[Backlog].status = "failed"
    /\ 1 \notin DOMAIN updates
    /\ \A j \in 1..PENDING_LIMIT : jobs[j].status = "completed"
    /\ batch["t1"] = {} /\ cur["t1"] = NoJob

\* C28: the emails of a digest job go only to subscriptions whose row is in
\* the table when the job is processed: a subscription whose unsubscribe
\* or removal by the owner completed before gets no email from it, also
\* when the job is an instant_digest enqueued before that and its payload
\* still carries the subscription's id.
C28_NoMailAfterUnsubscribe ==
    [][\A m \in mail'.sends : m.sub \in DOMAIN subs]_vars

\* an instant job whose payload names a subscription that is gone has just
\* sent its email to the other subscriber of its payload
C28_Witness ==
    /\ mail.type = "instant_digest"
    /\ \E s \in jobs[mail.job].subscriberIds : s \notin DOMAIN subs
    /\ \E m \in mail.sends : m.sub \in jobs[mail.job].subscriberIds

\* C29: a retry request for a job that is failed is answered with success
\* and sets that job to pending with attempts 0, scheduled for now, leaving
\* the other rows as they are; a request for a job that is pending,
\* processing or completed, or for an id no job has, is answered with an
\* error and changes no job row.
C29_RetryOnlyFailed ==
    [][ret'.op = "retryJob" =>
          IF ret'.arg \in DOMAIN jobs /\ jobs[ret'.arg].status = "failed"
          THEN /\ ret'.count = 200
               /\ jobs' = [jobs EXCEPT ![ret'.arg].status = "pending",
                                       ![ret'.arg].attempts = 0,
                                       ![ret'.arg].scheduledFor = now]
          ELSE /\ ret'.count \in {400, 404}
               /\ jobs' = jobs]_vars

\* a job that had failed after its backoff has just been reset by a retry
\* request, which was answered with success
C29_Witness ==
    /\ ret.op = "retryJob" /\ ret.count = 200
    /\ jobs[ret.arg].status = "pending"
    /\ jobs[ret.arg].attempts = 0
    /\ jobs[ret.arg].scheduledFor = now
    /\ jobs[ret.arg].createdAt < now

\* C30: when a daily or weekly digest job has been processed with every
\* send successful, a second job of the same type for the same project,
\* processed on the state the first one left (no update created in
\* between), has no recipient: it sends no email and writes no watermark,
\* at whatever time it runs.  So a manual trigger followed by the scheduled
\* run of the same cadence delivers no update a second time.
C30_SecondRunSendsNothing ==
    [][(mail'.type \in Scheduled /\ \A m \in mail'.sends : m.ok)
          => LET second == claimed(jobs', mail'.job)
             IN  /\ Recipients(subs', updates', second) = {}
                 /\ Sends(subs', updates', second, DOMAIN subs') = {}
                 /\ \A t \in now'..MaxTime :
                       processDigest(subs', updates', second, DOMAIN subs', t)
                          = subs']_vars

\* the second of two daily jobs of a project has just been processed: it
\* sent nothing, the first having delivered the project's update to the
\* daily subscriber
C30_Witness ==
    /\ mail.type = "daily_digest" /\ mail.sends = {}
    /\ \E j1 \in DOMAIN jobs \ {mail.job} :
          /\ jobs[j1].type = "daily_digest"
          /\ jobs[j1].status = "completed"
          /\ jobs[j1].projectId = jobs[mail.job].projectId
    /\ \E s \in SubscribersOf(subs, jobs[mail.job].projectId, "daily") :
          \E u \in DOMAIN updates :
             /\ updates[u].projectId = subs[s].projectId
             /\ subs[s].lastSentAt # Null
             /\ subs[s].lastSentAt >= updates[u].createdAt
====
